---------------------------- MODULE Spec2Model ----------------------------
(***************************************************************************)
(* Model of the fpl-etl repository: the API extractor (get / parse /       *)
(* clean_df / FPL.generate), the pipeline orchestrator (Pipeline.rebuild,  *)
(* Pipeline.reload) and the table lifecycle of OracleDBLoader.             *)
(*                                                                         *)
(* Text that the code upper-cases (prefixes, logical names, table names,   *)
(* column names) is a sequence of one-character strings, so that           *)
(* str.upper() is computed character by character.  Cell values are        *)
(* opaque strings.                                                         *)
(***************************************************************************)
EXTENDS Integers, Sequences, FiniteSets, TLC

(***************************************************************************)
(* Bounds of the model.                                                    *)
(***************************************************************************)
\* largest number of columns of a buffer handed to clean_df on its own
MaxCols == 2
\* largest number of rows of a buffer handed to clean_df on its own
MaxRows == 2
\* number of pipeline runs (rebuild / reload calls) against one database
MaxRuns == 3
MaxTableRows == 4
\* number of columns of a table handed to generate_oracle_ddl
MaxDdlCols == 2

(***************************************************************************)
(* Text: str.upper() and concatenation.                                    *)
(***************************************************************************)
LowerChars == <<"a","b","c","d","e","f","g","h","i","j","k","l","m",
                "n","o","p","q","r","s","t","u","v","w","x","y","z">>
UpperChars == <<"A","B","C","D","E","F","G","H","I","J","K","L","M",
                "N","O","P","Q","R","S","T","U","V","W","X","Y","Z">>

\* one character of str.upper(): a lower-case letter maps to its capital,
\* every other character (capitals, "_", "-") is kept
UpperChar(c) ==
    IF \E i \in DOMAIN LowerChars : LowerChars[i] = c
    THEN UpperChars[CHOOSE i \in DOMAIN LowerChars : LowerChars[i] = c]
    ELSE c

\* str.upper()
Upper(s) == [i \in DOMAIN s |-> UpperChar(s[i])]

\* the text constants of the program and of its inputs
s_fpl_lower == <<"f","p","l">>
s_FPL == <<"F","P","L">>
s_events == <<"e","v","e","n","t","s">>
s_Events == <<"E","v","e","n","t","s">>
s_players == <<"p","l","a","y","e","r","s">>
s_fixtures == <<"f","i","x","t","u","r","e","s">>
s_bootstrap == <<"b","o","o","t","s","t","r","a","p","-","s","t","a","t","i","c">>
s_FPL_EVENTS == <<"F","P","L","_","E","V","E","N","T","S">>
s_FPL_PLAYERS == <<"F","P","L","_","P","L","A","Y","E","R","S">>
s_id == <<"i","d">>
s_name == <<"n","a","m","e">>
s_active == <<"a","c","t","i","v","e">>
s_stats == <<"s","t","a","t","s">>
s_request_id == <<"r","e","q","u","e","s","t","_","i","d">>
s_request_time == <<"r","e","q","u","e","s","t","_","t","i","m","e">>
s_response_code == <<"r","e","s","p","o","n","s","e","_","c","o","d","e">>
s_response_elapsed_ms ==
    <<"r","e","s","p","o","n","s","e","_","e","l","a","p","s","e","d","_","m","s">>

\* the four stamp columns, in the order parse attaches them
StampColumns == <<s_request_id, s_request_time, s_response_code, s_response_elapsed_ms>>

(***************************************************************************)
(* Tabular buffers (polars DataFrame): a height and a sequence of columns  *)
(* [name, dtype, vals] with Len(vals) = height.                            *)
(***************************************************************************)
Range(s) == {s[i] : i \in DOMAIN s}

Column(n, t, v) == [name |-> n, dtype |-> t, vals |-> v]

Frame(h, cs) == [height |-> h, cols |-> cs]

ColumnNames(df) == [i \in DOMAIN df.cols |-> df.cols[i].name]

\* dtypes for which clean_df's isinstance(dtype, pl.List) / pl.Struct holds
NestedDtypes == {"List", "Struct"}

\* JSON cells: [t |-> JSON type, v |-> text of the value]
Cell(t, v) == [t |-> t, v |-> v]
JNull == Cell("null", "null")

\* the dtype polars infers for a JSON value
DtypeOfJson(t) ==
    CASE t = "bool" -> "Boolean"
      [] t = "int" -> "Int64"
      [] t = "str" -> "String"
      [] t = "array" -> "List"
      [] t = "object" -> "Struct"
      [] OTHER -> "Null"

\* value of field f in a JSON object given as a sequence of <<field, cell>>
\* pairs (null when the object has no such field)
FieldOf(obj, f) ==
    IF \E i \in DOMAIN obj : obj[i][1] = f
    THEN obj[CHOOSE i \in DOMAIN obj : obj[i][1] = f][2]
    ELSE JNull

\* pl.DataFrame(data) for a list of JSON objects: no column and no row for
\* the empty list; otherwise one column per field of the objects, in field
\* order, typed by the first non-null value, one row per object
DataFrame(data) ==
    IF Len(data) = 0 THEN Frame(0, <<>>)
    ELSE LET fields == [j \in DOMAIN data[1] |-> data[1][j][1]]
             cellsOf(f) == [i \in DOMAIN data |-> FieldOf(data[i], f)]
             dtypeOf(f) ==
                 LET cs == cellsOf(f)
                 IN IF \E i \in DOMAIN cs : cs[i].t # "null"
                    THEN DtypeOfJson(cs[CHOOSE i \in DOMAIN cs :
                              /\ cs[i].t # "null"
                              /\ \A k \in 1..(i-1) : cs[k].t = "null"].t)
                    ELSE "Null"
         IN Frame(Len(data),
                  [j \in DOMAIN fields |->
                      Column(fields[j], dtypeOf(fields[j]),
                             [i \in DOMAIN data |-> cellsOf(fields[j])[i].v])])

\* the frame parse builds for a failure: the four stamp columns, no row
EmptySkeleton ==
    Frame(0, [j \in DOMAIN StampColumns |-> Column(StampColumns[j], "Null", <<>>)])

\* DataFrame.drop(names)
Drop(df, names) ==
    LET kept == SelectSeq(df.cols, LAMBDA c : c.name \notin names)
    IN Frame(IF Len(kept) = 0 THEN 0 ELSE df.height, kept)

\* cast(pl.Int8) of one Boolean value
BoolToInt8(v) ==
    CASE v = "true" -> "1"
      [] v = "false" -> "0"
      [] OTHER -> "null"

\* a buggy clean_df: casts the Boolean columns but drops no nested column
CleanKeepNested(df) ==
    Frame(df.height,
          [j \in DOMAIN df.cols |->
              IF df.cols[j].dtype = "Boolean"
              THEN Column(df.cols[j].name, "Int8",
                          [i \in DOMAIN df.cols[j].vals |-> BoolToInt8(df.cols[j].vals[i])])
              ELSE df.cols[j]])

\* utils.clean_df
clean_df(df) ==
    LET list_cols == {df.cols[j].name : j \in {k \in DOMAIN df.cols :
                                               df.cols[k].dtype \in NestedDtypes}}
        dropped == Drop(df, list_cols)
        bool_cols == {dropped.cols[j].name : j \in {k \in DOMAIN dropped.cols :
                                               dropped.cols[k].dtype = "Boolean"}}
    IN IF bool_cols = {} THEN dropped
       ELSE Frame(dropped.height,
                  [j \in DOMAIN dropped.cols |->
                      IF dropped.cols[j].name \in bool_cols
                      THEN Column(dropped.cols[j].name, "Int8",
                                  [i \in DOMAIN dropped.cols[j].vals |->
                                      BoolToInt8(dropped.cols[j].vals[i])])
                      ELSE dropped.cols[j]])

\* df.with_columns(pl.lit(v).alias(n)): the literal is repeated on every row
\* of a frame that has columns (replacing a column of that name, appended
\* otherwise); on a frame without any column the literal is the frame's
\* only column and gives it one row
WithLit(df, n, t, v) ==
    IF Len(df.cols) = 0
    THEN Frame(1, <<Column(n, t, <<v>>)>>)
    ELSE LET c == Column(n, t, [i \in 1..df.height |-> v])
         IN IF \E j \in DOMAIN df.cols : df.cols[j].name = n
            THEN Frame(df.height,
                       [j \in DOMAIN df.cols |->
                           IF df.cols[j].name = n THEN c ELSE df.cols[j]])
            ELSE Frame(df.height, Append(df.cols, c))


(***************************************************************************)
(* JSON bodies and HTTP responses.                                         *)
(***************************************************************************)
\* Optional[str] key of parse
KeyNone == [some |-> FALSE, val |-> <<>>]
Key(k) == [some |-> TRUE, val |-> k]

\* JSON values stored under a key of an object body
JArray(rows) == [t |-> "array", items |-> rows]
JNone == [t |-> "null", items |-> <<>>]

\* a parsed JSON body: an object (a sequence of <<key, value>> members) or
\* an array of objects; NoBody is Python's None / a deleted entry
ObjectBody(ms) == [kind |-> "object", items |-> <<>>, members |-> ms]
ArrayBody(rows) == [kind |-> "array", items |-> rows, members |-> <<>>]
NoBody == [kind |-> "none", items |-> <<>>, members |-> <<>>]

\* dict.get(key) on an object body: the member's value, None when absent
JsonGet(body, k) ==
    IF \E i \in DOMAIN body.members : body.members[i][1] = k
    THEN body.members[CHOOSE i \in DOMAIN body.members : body.members[i][1] = k][2]
    ELSE JNone

\* Python truthiness of a stored value, as used by `stamp.get(key) or []`
Truthy(v) == v.t = "array" /\ Len(v.items) > 0

\* requests.Response: status, elapsed milliseconds, parsed body
Response(code, ms, body) == [status_code |-> code, elapsed_ms |-> ms, body |-> body]

(***************************************************************************)
(* APIExtractor.stamp / get / parse.                                       *)
(***************************************************************************)
\* APIExtractor.stamp: the n-th request's uuid4 and UTC time
Stamp(n) ==
    [request_id |-> ToString(n), request_time |-> ToString(n),
     response |-> NoBody, response_code |-> 0, response_elapsed_ms |-> 0,
     data |-> NoBody, slots |-> <<>>]

\* APIExtractor.get once requests.get has returned resp
Get(n, resp) ==
    [Stamp(n) EXCEPT !.response = resp.body,
                     !.response_code = resp.status_code,
                     !.response_elapsed_ms = resp.elapsed_ms]

\* stamp[key] = value
SetSlot(slots, k, v) ==
    IF \E i \in DOMAIN slots : slots[i][1] = k
    THEN [i \in DOMAIN slots |-> IF slots[i][1] = k THEN <<k, v>> ELSE slots[i]]
    ELSE Append(slots, <<k, v>>)

\* stamp.get(key)
GetSlot(slots, k) ==
    IF \E i \in DOMAIN slots : slots[i][1] = k
    THEN slots[CHOOSE i \in DOMAIN slots : slots[i][1] = k][2]
    ELSE JNone

\* parse, first half: what parse stores in the stamp before building the frame
ParseStamp(stamp, key) ==
    LET stored ==
            IF stamp.response_code = 200
            THEN IF ~key.some
                 THEN [stamp EXCEPT !.data = stamp.response]
                 ELSE [stamp EXCEPT !.slots =
                          SetSlot(stamp.slots, key.val, JsonGet(stamp.response, key.val))]
            ELSE [stamp EXCEPT !.data = NoBody]
    IN [stored EXCEPT !.response = NoBody]

\* the four with_columns(pl.lit(...)) calls of parse
Enrich(df, stamp) ==
    WithLit(
      WithLit(
        WithLit(
          WithLit(df, s_request_id, "String", stamp.request_id),
          s_request_time, "String", stamp.request_time),
        s_response_code, "Int32", ToString(stamp.response_code)),
      s_response_elapsed_ms, "Float64", ToString(stamp.response_elapsed_ms))

\* a buggy parse: builds the frame from the key's value whatever the status
ParseIgnoringStatus(stamp, key) ==
    LET st == ParseStamp(stamp, key)
        got == GetSlot(st.slots, key.val)
        df == IF key.some
              THEN DataFrame(IF Truthy(got) THEN got.items ELSE <<>>)
              ELSE EmptySkeleton
    IN Enrich(clean_df(df), st)

\* APIExtractor.parse
Parse(stamp, key) ==
    LET st == ParseStamp(stamp, key)
        got == GetSlot(st.slots, key.val)
        df == IF st.response_code = 200 /\ key.some
              THEN DataFrame(IF Truthy(got) THEN got.items ELSE <<>>)
              ELSE EmptySkeleton
    IN Enrich(clean_df(df), st)

(***************************************************************************)
(* Inputs.                                                                 *)
(***************************************************************************)
\* the rows of tests/test_extract.py
RowsTest ==
    << << <<s_id, Cell("int", "1")>>, <<s_name, Cell("str", "Event 1")>>,
          <<s_active, Cell("bool", "true")>> >>,
       << <<s_id, Cell("int", "2")>>, <<s_name, Cell("str", "Event 2")>>,
          <<s_active, Cell("bool", "false")>> >> >>

\* one row with a nested value and a null Boolean next to a true one
RowsNested ==
    << << <<s_id, Cell("int", "7")>>, <<s_stats, Cell("array", "[]")>>,
          <<s_active, JNull>> >>,
       << <<s_id, Cell("int", "8")>>, <<s_stats, Cell("array", "[]")>>,
          <<s_active, Cell("bool", "true")>> >>,
       << <<s_id, Cell("int", "9")>>, <<s_stats, Cell("array", "[]")>>,
          <<s_active, Cell("bool", "false")>> >> >>

RowsOne == << << <<s_id, Cell("int", "3")>> >> >>

ObjectBodies ==
    { ObjectBody(<< <<s_events, JArray(RowsTest)>> >>),
      ObjectBody(<< <<s_events, JArray(RowsTest)>>, <<s_players, JArray(RowsNested)>> >>),
      ObjectBody(<< <<s_events, JArray(<<>>)>>, <<s_players, JNone>> >>),
      ObjectBody(<<>>) }

ArrayBodies == { ArrayBody(RowsNested), ArrayBody(RowsOne), ArrayBody(<<>>) }

Bodies == ObjectBodies \cup ArrayBodies

StatusCodes == {200, 404, 500}

Keys == {KeyNone, Key(s_events), Key(s_players), Key(s_fixtures)}

\* buffers for clean_df on its own: up to MaxCols columns named a, b, ...,
\* up to MaxRows rows, every column of one dtype
SampleValue(t) ==
    CASE t = "Int64" -> "7"
      [] t = "String" -> "x"
      [] t = "List" -> "[]"
      [] t = "Struct" -> "{}"
      [] t = "Int8" -> "1"
      [] OTHER -> "null"

TypedVals(h) ==
    {[dtype |-> "Boolean", vals |-> v] : v \in [1..h -> {"true", "false", "null"}]}
    \cup {[dtype |-> t, vals |-> [i \in 1..h |-> SampleValue(t)]] :
             t \in {"Int64", "String", "List", "Struct", "Int8"}}

FrameOf(h, n, f) ==
    Frame(IF n = 0 THEN 0 ELSE h,
          [j \in 1..n |-> Column(<<LowerChars[j]>>, f[j].dtype, f[j].vals)])

(***************************************************************************)
(* polars -> pyarrow, table names, endpoint configurations.                *)
(***************************************************************************)
\* the Arrow type polars' to_arrow gives a column of each dtype
ArrowType(t) ==
    CASE t = "Int64" -> "int64"
      [] t = "Int32" -> "int32"
      [] t = "Int8" -> "int8"
      [] t = "Float64" -> "double"
      [] t = "String" -> "large_string"
      [] t = "Boolean" -> "bool"
      [] t = "List" -> "large_list"
      [] t = "Struct" -> "struct"
      [] OTHER -> "null"

\* DataFrame.to_arrow(): a pyarrow Table
ToArrow(df) ==
    [num_rows |-> df.height,
     schema |-> [j \in DOMAIN df.cols |->
                    [name |-> df.cols[j].name, type |-> ArrowType(df.cols[j].dtype)]],
     columns |-> [j \in DOMAIN df.cols |-> df.cols[j].vals]]

\* a buggy naming: upper-cases the prefix as well
TableNameUpperPrefix(p, k) == Upper(p) \o <<"_">> \o Upper(k)

\* f"{table_prefix}_{k.upper()}"
TableName(p, k) == p \o <<"_">> \o Upper(k)

\* endpoint configurations {endpoint: [sub-keys]} in insertion order
Endpoint(e, ks) == [e |-> e, keys |-> ks]
CfgScenario == <<Endpoint(s_bootstrap, <<s_events>>), Endpoint(s_fixtures, <<>>)>>
CfgTwoKeys == <<Endpoint(s_bootstrap, <<s_events, s_players>>)>>
CfgMixedCase == <<Endpoint(s_fixtures, <<>>), Endpoint(s_bootstrap, <<s_Events>>)>>
CfgEmpty == <<>>
Configs == {CfgScenario, CfgTwoKeys, CfgMixedCase, CfgEmpty}

Prefixes == {s_FPL, s_fpl_lower}

\* urljoin(self.base, e) with base "https://fantasy.premierleague.com/api/"
UrlJoin(e) == [base |-> "https://fantasy.premierleague.com/api/", path |-> e]

\* the position FPL.generate resumes at: (ei, ki) is the endpoint being
\* walked and the number of items it has yielded so far; the result is the
\* next item to fetch, or done when the configuration is exhausted
RECURSIVE NextItem(_, _, _)
NextItem(cfg, i, k) ==
    IF i > Len(cfg)
    THEN [done |-> TRUE, ei |-> i, ki |-> 0, e |-> <<>>, key |-> KeyNone, name |-> <<>>]
    ELSE IF Len(cfg[i].keys) = 0 /\ k = 0
    THEN [done |-> FALSE, ei |-> i, ki |-> 1, e |-> cfg[i].e, key |-> KeyNone,
          name |-> cfg[i].e]
    ELSE IF k < Len(cfg[i].keys)
    THEN [done |-> FALSE, ei |-> i, ki |-> k + 1, e |-> cfg[i].e,
          key |-> Key(cfg[i].keys[k + 1]), name |-> cfg[i].keys[k + 1]]
    ELSE NextItem(cfg, i + 1, 0)

\* what requests.get may return to the pipeline: a 200 with a body of the
\* shape the endpoint serves (an object when a key is read from it), or an
\* error status, whose body is never read
PipelineResponses(key) ==
    {Response(200, 5, b) : b \in (IF key.some THEN ObjectBodies ELSE ArrayBodies)}
    \cup {Response(500, 9, ObjectBody(<<>>))}

(***************************************************************************)
(* State.                                                                  *)
(***************************************************************************)
VARIABLES
    ppc, pstamp, pkey, pframe, pres, pres2,
    endpoints, mode, prefix, pc, runs, result, ei, ki,
    fetches, yielded, calls, log, tables,
    closed, lres, ddl_in, ddl_out

pvars == <<ppc, pstamp, pkey, pframe, pres, pres2>>
gvars == <<endpoints, mode, prefix, pc, runs, result, ei, ki,
           fetches, yielded, calls, log, tables>>
\* the loader's pool state and the record of its last direct call; the
\* input and output of generate_oracle_ddl on its own
lvars == <<closed, lres>>
dvars == <<ddl_in, ddl_out>>
vars == <<ppc, pstamp, pkey, pframe, pres, pres2,
          endpoints, mode, prefix, pc, runs, result, ei, ki,
          fetches, yielded, calls, log, tables,
          closed, lres, ddl_in, ddl_out>>

NoFrame == Frame(0, <<>>)

\* no MERGE statement, no direct loader call yet, no DDL input or output
NoMerge == [on |-> <<>>, update |-> <<>>, insert |-> <<>>]

NoCall ==
    [op |-> "none", table |-> <<>>, raised |-> FALSE, value |-> -1,
     rows |-> 0, fail_row |-> 0, key_columns |-> <<>>, before |-> <<>>,
     sql |-> NoMerge]

NoDdl == [ddl |-> "", column_defs |-> <<>>, again |-> ""]

\* the pool is open and the loader has not been called directly
LoaderIdle == closed = FALSE /\ lres = NoCall

\* generate_oracle_ddl is not running
DdlIdle ==
    /\ ddl_in = [table |-> [num_rows |-> 0, schema |-> <<>>, columns |-> <<>>],
                 table_name |-> <<>>]
    /\ ddl_out = NoDdl

(***************************************************************************)
(* The extractor's functions on their own (specification SpecPure).        *)
(***************************************************************************)
PipelineIdle ==
    /\ endpoints = CfgEmpty /\ mode = "none" /\ prefix = s_FPL /\ pc = "off"
    /\ runs = 0 /\ result = "none" /\ ei = 1 /\ ki = 0
    /\ fetches = <<>> /\ yielded = <<>> /\ calls = <<>> /\ log = <<>>
    /\ tables = <<>>

InitPure ==
    /\ PipelineIdle
    /\ LoaderIdle /\ DdlIdle
    /\ pres = NoFrame /\ pres2 = NoFrame
    /\ \/ /\ ppc = "parse"
          /\ pframe = NoFrame
          /\ pkey \in Keys
          /\ \E c \in StatusCodes, b \in Bodies :
                /\ (c = 200 /\ pkey.some) => b.kind = "object"
                /\ pstamp = Get(1, Response(c, 5, b))
       \/ /\ ppc = "clean"
          /\ \E h \in 0..MaxRows, n \in 0..MaxCols :
                \E f \in [1..n -> TypedVals(h)] : pframe = FrameOf(h, n, f)
          /\ pkey = KeyNone
          /\ pstamp = Stamp(1)

\* df = extractor.parse(stamp, key)
DoParse ==
    /\ ppc = "parse"
    /\ pres' = Parse(pstamp, pkey)
    /\ ppc' = "parsed"
    /\ UNCHANGED <<pstamp, pkey, pframe, pres2>>
    /\ UNCHANGED gvars
    /\ UNCHANGED <<lvars, dvars>>

\* df = clean_df(df)
DoClean ==
    /\ ppc = "clean"
    /\ pres' = clean_df(pframe)
    /\ ppc' = "cleaned"
    /\ UNCHANGED <<pstamp, pkey, pframe, pres2>>
    /\ UNCHANGED gvars
    /\ UNCHANGED <<lvars, dvars>>

\* clean_df applied to its own result
DoCleanAgain ==
    /\ ppc = "cleaned"
    /\ pres2' = clean_df(pres)
    /\ ppc' = "cleaned2"
    /\ UNCHANGED <<pstamp, pkey, pframe, pres>>
    /\ UNCHANGED gvars
    /\ UNCHANGED <<lvars, dvars>>

NextPure == DoParse \/ DoClean \/ DoCleanAgain

SpecPure == InitPure /\ [][NextPure]_vars


(***************************************************************************)
(* The database behind OracleDBLoader: tables maps the name of every       *)
(* existing table to its columns and its number of committed rows.  The    *)
(* loader writes table names unquoted in its SQL (and upper-cased, quoted, *)
(* in its DDL and in the all_tables lookup), so the database knows a table *)
(* by the upper-cased name.                                                *)
(***************************************************************************)
DbName(t) == Upper(t)

TableExists(db, t) == DbName(t) \in DOMAIN db

RowsOf(db, t) == IF TableExists(db, t) THEN db[DbName(t)].rows ELSE -1

\* a CREATE TABLE that keeps the table name as the caller wrote it
DbCreateAsWritten(db, t, data) ==
    [n \in DOMAIN db \cup {t} |->
        IF n = t
        THEN [cols |-> [j \in DOMAIN data.schema |-> Upper(data.schema[j].name)],
              rows |-> 0]
        ELSE db[n]]

\* CREATE TABLE "T" (...): one upper-cased column per field of the data
DbCreate(db, t, data) ==
    [n \in DOMAIN db \cup {DbName(t)} |->
        IF n = DbName(t)
        THEN [cols |-> [j \in DOMAIN data.schema |-> Upper(data.schema[j].name)],
              rows |-> 0]
        ELSE db[n]]

\* DROP TABLE t PURGE
DbDrop(db, t) == [n \in DOMAIN db \ {DbName(t)} |-> db[n]]

\* a buggy truncate: commits nothing, the rows stay
DbTruncateKeepsRows(db, t) == db

\* TRUNCATE TABLE t
DbTruncate(db, t) == [db EXCEPT ![DbName(t)].rows = 0]

\* INSERT INTO t (...) VALUES (...) for every row of data, then commit
DbInsert(db, t, data) == [db EXCEPT ![DbName(t)].rows = @ + data.num_rows]

\* whether the INSERT statement built for data can run against table t:
\* the table exists and has every column the statement names
InsertRuns(db, t, data) ==
    /\ TableExists(db, t)
    /\ \A j \in DOMAIN data.schema :
          Upper(data.schema[j].name) \in Range(db[DbName(t)].cols)

(***************************************************************************)
(* Pipeline.rebuild / Pipeline.reload over FPL.generate and the loader.    *)
(* pc is the place the running pipeline call is at; every database         *)
(* operation and every generator resumption is one step.                   *)
(***************************************************************************)
LogEntry(op, item, t, ok, rows) ==
    [op |-> op, item |-> item, table |-> t, ok |-> ok, rows |-> rows]

CurCall == calls[Len(calls)]

Init ==
    /\ ppc = "off" /\ pstamp = Stamp(1) /\ pkey = KeyNone
    /\ pframe = NoFrame /\ pres = NoFrame /\ pres2 = NoFrame
    /\ endpoints \in Configs
    /\ mode = "none" /\ prefix = s_FPL /\ pc = "idle"
    /\ runs = 0 /\ result = "none" /\ ei = 1 /\ ki = 0
    /\ fetches = <<>> /\ yielded = <<>> /\ calls = <<>> /\ log = <<>>
    /\ tables = <<>>
    /\ LoaderIdle /\ DdlIdle

\* a pipeline call starts: the generator is created, nothing is fetched yet
Begin(p) ==
    /\ pc = "idle"
    /\ runs < MaxRuns
    /\ runs' = runs + 1
    /\ prefix' = p /\ pc' = "gen" /\ result' = "running"
    /\ ei' = 1 /\ ki' = 0
    /\ fetches' = <<>> /\ yielded' = <<>> /\ calls' = <<>> /\ log' = <<>>
    /\ UNCHANGED <<endpoints, tables>>
    /\ UNCHANGED pvars
    /\ UNCHANGED <<lvars, dvars>>

\* pipeline.rebuild(table_prefix = p)
StartRebuild ==
    \E p \in Prefixes :
        /\ mode' = "rebuild"
        /\ Begin(p)

\* pipeline.reload(table_prefix = p)
StartReload ==
    \E p \in Prefixes :
        /\ mode' = "reload"
        /\ Begin(p)

\* a pipeline that catches the error of an item and goes on with the next
FinishGoesOn(how) == pc' = "gen" /\ result' = how

\* the pipeline call ends: it returns, or an exception leaves it
Finish(how) == pc' = "idle" /\ result' = how

\* a buggy generator step: an endpoint with sub-keys also yields an item
\* for the whole endpoint before its sub-keys
NextItemAlsoWhole(cfg, i, k) ==
    IF i > Len(cfg)
    THEN [done |-> TRUE, ei |-> i, ki |-> 0, e |-> <<>>, key |-> KeyNone, name |-> <<>>]
    ELSE IF k = 0
    THEN [done |-> FALSE, ei |-> i, ki |-> 1, e |-> cfg[i].e, key |-> KeyNone,
          name |-> cfg[i].e]
    ELSE IF k - 1 < Len(cfg[i].keys)
    THEN [done |-> FALSE, ei |-> i, ki |-> k + 1, e |-> cfg[i].e,
          key |-> Key(cfg[i].keys[k]), name |-> cfg[i].keys[k]]
    ELSE NextItem(cfg, i + 1, 0)

\* the generator's next step from its current position
GenStep(cfg, i, k) == NextItem(cfg, i, k)

\* generate() resumed: one requests.get, parse, and the item is yielded
GenYield ==
    /\ pc = "gen"
    /\ LET it == GenStep(endpoints, ei, ki)
       IN /\ ~it.done
          /\ \E resp \in PipelineResponses(it.key) :
                LET stamp == Get(Len(fetches) + 1, resp)
                IN /\ fetches' = Append(fetches,
                          [url |-> UrlJoin(it.e), key |-> it.key, raised |-> FALSE,
                           resp |-> resp])
                   /\ yielded' = Append(yielded,
                          [name |-> it.name, df |-> Parse(stamp, it.key)])
          /\ ei' = it.ei /\ ki' = it.ki
          /\ log' = Append(log, LogEntry("get", Len(yielded) + 1, <<>>, TRUE, -1))
    /\ pc' = "yielded"
    /\ UNCHANGED <<endpoints, mode, prefix, runs, result, calls, tables>>
    /\ UNCHANGED pvars
    /\ UNCHANGED <<lvars, dvars>>

\* generate() resumed and requests.get raises a transport error, which
\* nothing catches
GenGetRaises ==
    /\ pc = "gen"
    /\ LET it == GenStep(endpoints, ei, ki)
       IN /\ ~it.done
          /\ fetches' = Append(fetches,
                [url |-> UrlJoin(it.e), key |-> it.key, raised |-> TRUE,
                 resp |-> Response(0, 0, NoBody)])
          /\ log' = Append(log, LogEntry("get", Len(yielded) + 1, <<>>, FALSE, -1))
    /\ Finish("raised")
    /\ UNCHANGED <<endpoints, mode, prefix, runs, ei, ki, yielded, calls, tables>>
    /\ UNCHANGED pvars
    /\ UNCHANGED <<lvars, dvars>>

\* generate() is exhausted: the for loop of the pipeline ends
GenExhausted ==
    /\ pc = "gen"
    /\ GenStep(endpoints, ei, ki).done
    /\ Finish("returned")
    /\ UNCHANGED <<endpoints, mode, prefix, runs, ei, ki, fetches, yielded, calls,
                   log, tables>>
    /\ UNCHANGED pvars
    /\ UNCHANGED <<lvars, dvars>>

\* a buggy loop body: hands every item to rebuild_table
LoaderOpAlwaysRebuild(m) == "rebuild_table"

\* the loader method the loop body of Pipeline.rebuild / reload calls
LoaderOp(m) == IF m = "rebuild" THEN "rebuild_table" ELSE "reload_table"

\* the loop body: to_arrow, the table name, the loader call
CallLoader ==
    /\ pc = "yielded"
    /\ LET it == yielded[Len(yielded)]
       IN calls' = Append(calls,
              [op |-> LoaderOp(mode), table_name |-> TableName(prefix, it.name),
               data |-> ToArrow(it.df)])
    /\ pc' = "check"
    /\ UNCHANGED <<endpoints, mode, prefix, runs, result, ei, ki, fetches, yielded,
                   log, tables>>
    /\ UNCHANGED pvars
    /\ UNCHANGED <<lvars, dvars>>

\* a buggy rebuild_table: never drops
AfterCheckRebuildNoDrop(exists) == "create"

\* where rebuild_table goes after check_table_exists
AfterCheckRebuild(exists) == IF exists THEN "drop" ELSE "create"

\* a buggy reload_table: truncates without looking at the check
AfterCheckReloadNoCheck(exists) == "truncate"

\* where reload_table goes after check_table_exists
AfterCheckReload(exists) == IF exists THEN "truncate" ELSE "insert"

\* check_table_exists, the first statement of rebuild_table / reload_table
CheckTableExists ==
    /\ pc = "check"
    /\ LET t == CurCall.table_name
           exists == TableExists(tables, t)
       IN /\ log' = Append(log, LogEntry("check_table_exists", Len(calls), DbName(t),
                                         exists, RowsOf(tables, t)))
          /\ pc' = IF CurCall.op = "rebuild_table"
                   THEN AfterCheckRebuild(exists)
                   ELSE AfterCheckReload(exists)
    /\ UNCHANGED <<endpoints, mode, prefix, runs, result, ei, ki, fetches, yielded,
                   calls, tables>>
    /\ UNCHANGED pvars
    /\ UNCHANGED <<lvars, dvars>>

\* drop_table: the database error for a missing table is logged and re-raised
DropTable ==
    /\ pc = "drop"
    /\ LET t == CurCall.table_name
       IN IF TableExists(tables, t)
          THEN /\ tables' = DbDrop(tables, t)
               /\ log' = Append(log, LogEntry("drop_table", Len(calls), DbName(t), TRUE, -1))
               /\ pc' = "create" /\ UNCHANGED result
          ELSE /\ log' = Append(log, LogEntry("drop_table", Len(calls), DbName(t), FALSE, -1))
               /\ Finish("raised") /\ UNCHANGED tables
    /\ UNCHANGED <<endpoints, mode, prefix, runs, ei, ki, fetches, yielded, calls>>
    /\ UNCHANGED pvars
    /\ UNCHANGED <<lvars, dvars>>

\* create_table: the database error for an existing table is logged and re-raised
CreateTable ==
    /\ pc = "create"
    /\ LET t == CurCall.table_name
       IN IF ~TableExists(tables, t)
          THEN /\ tables' = DbCreate(tables, t, CurCall.data)
               /\ log' = Append(log, LogEntry("create_table", Len(calls), DbName(t), TRUE, 0))
               /\ pc' = "insert" /\ UNCHANGED result
          ELSE /\ log' = Append(log, LogEntry("create_table", Len(calls), DbName(t), FALSE,
                                              RowsOf(tables, t)))
               /\ Finish("raised") /\ UNCHANGED tables
    /\ UNCHANGED <<endpoints, mode, prefix, runs, ei, ki, fetches, yielded, calls>>
    /\ UNCHANGED pvars
    /\ UNCHANGED <<lvars, dvars>>

\* truncate_table: the database error for a missing table is logged and re-raised
TruncateTable ==
    /\ pc = "truncate"
    /\ LET t == CurCall.table_name
       IN IF TableExists(tables, t)
          THEN /\ tables' = DbTruncate(tables, t)
               /\ log' = Append(log, LogEntry("truncate_table", Len(calls), DbName(t), TRUE,
                                              RowsOf(tables', t)))
               /\ pc' = "insert" /\ UNCHANGED result
          ELSE /\ log' = Append(log, LogEntry("truncate_table", Len(calls), DbName(t), FALSE, -1))
               /\ Finish("raised") /\ UNCHANGED tables
    /\ UNCHANGED <<endpoints, mode, prefix, runs, ei, ki, fetches, yielded, calls>>
    /\ UNCHANGED pvars
    /\ UNCHANGED <<lvars, dvars>>

\* the outcomes of cursor.executemany(sql, data); conn.commit() in
\* insert_data.  executemany sends the statement once per batch of rows:
\* for data without rows nothing is sent and the call returns.  Otherwise
\* the database raises when the statement cannot run against the table
\* (missing table, unknown column), and may raise on a row (a value the
\* column does not take); the error leaves insert_data before commit, so no
\* row of the batch stays.
InsertOutcomes(db, t, data) ==
    IF data.num_rows = 0 THEN {"ok"}
    ELSE IF ~InsertRuns(db, t, data) THEN {"error"}
    ELSE {"ok", "error"}

\* insert_data, the last statement of rebuild_table / reload_table
InsertData ==
    /\ pc = "insert"
    /\ LET t == CurCall.table_name
           data == CurCall.data
       IN \E out \in InsertOutcomes(tables, t, data) :
            IF out = "ok"
            THEN /\ tables' = IF data.num_rows = 0 THEN tables ELSE DbInsert(tables, t, data)
                 /\ log' = Append(log, LogEntry("insert_data", Len(calls), DbName(t), TRUE,
                                                RowsOf(tables', t)))
                 /\ pc' = "gen" /\ UNCHANGED result
            ELSE /\ log' = Append(log, LogEntry("insert_data", Len(calls), DbName(t), FALSE,
                                                RowsOf(tables, t)))
                 /\ Finish("raised") /\ UNCHANGED tables
    /\ UNCHANGED <<endpoints, mode, prefix, runs, ei, ki, fetches, yielded, calls>>
    /\ UNCHANGED pvars
    /\ UNCHANGED <<lvars, dvars>>

Next ==
    \/ StartRebuild \/ StartReload
    \/ GenYield \/ GenGetRaises \/ GenExhausted
    \/ CallLoader \/ CheckTableExists
    \/ DropTable \/ CreateTable \/ TruncateTable \/ InsertData

Spec == Init /\ [][Next]_vars

(***************************************************************************)
(* OracleDBLoader called directly (specification SpecLoader): a caller     *)
(* that holds one loader calls its methods in any order, on two table      *)
(* names and three pyarrow tables, and may close it.  Every method is one  *)
(* step: it opens a pooled connection, runs its statements, commits and    *)
(* gives the connection back.  A text value of a pyarrow table is held by  *)
(* its length.                                                             *)
(***************************************************************************)
s_T1 == <<"T","1">>
s_dumdum == <<"d","u","m","d","u","m">>
s_age == <<"a","g","e">>
s_city == <<"c","i","t","y">>

Field(n, t) == [name |-> n, type |-> t]

ArrowTable(n, fields, cols) == [num_rows |-> n, schema |-> fields, columns |-> cols]

\* pa.table(sample): name, age, city of Alice, Bob and Charlie
sample_table ==
    ArrowTable(3,
               <<Field(s_name, "string"), Field(s_age, "int64"),
                 Field(s_city, "string")>>,
               <<<<5, 3, 7>>, <<25, 30, 35>>, <<8, 11, 7>>>>)

\* the same schema without rows, and a one-row table of another schema
sample_empty ==
    ArrowTable(0,
               <<Field(s_name, "string"), Field(s_age, "int64"),
                 Field(s_city, "string")>>,
               <<<<>>, <<>>, <<>>>>)

id_table == ArrowTable(1, <<Field(s_id, "int64")>>, <<<<1>>>>)

LoaderTableNames == {s_T1, s_dumdum}

LoaderData == {sample_table, sample_empty, id_table}

\* the classes of python-oracledb that "except odb.DatabaseError" catches
DatabaseErrors ==
    {"DatabaseError", "ProgrammingError", "OperationalError", "IntegrityError"}

\* odb.connect(pool_alias=...): ConnectionPool.close() takes the pool out of
\* the cache of named pools, and connect on a missing alias raises a
\* ProgrammingError (DPY-2xxx), a subclass of DatabaseError
ConnectError(isClosed) == IF isClosed THEN "ProgrammingError" ELSE "none"

\* what a method hands back: the database after it, whether it raised, and
\* its return value (1 / 0 for True / False, -1 for None)
Ret(db, v) == [db |-> db, raised |-> FALSE, value |-> v]

Raise(db) == [db |-> db, raised |-> TRUE, value |-> -1]

\* test_connection: catches DatabaseError, logs, returns False
test_connection(db, isClosed) ==
    IF ConnectError(isClosed) \in DatabaseErrors THEN Ret(db, 0)
    ELSE IF ConnectError(isClosed) # "none" THEN Raise(db)
    ELSE Ret(db, 1)

\* check_table_exists: SELECT COUNT(*) FROM all_tables WHERE table_name = upper(t)
check_table_exists(db, isClosed, t) ==
    IF ConnectError(isClosed) # "none" THEN Raise(db)
    ELSE Ret(db, IF TableExists(db, t) THEN 1 ELSE 0)

\* count_rows: SELECT COUNT(*) FROM t; a database error is logged and re-raised
count_rows(db, isClosed, t) ==
    IF ConnectError(isClosed) # "none" THEN Raise(db)
    ELSE IF ~TableExists(db, t) THEN Raise(db)
    ELSE Ret(db, RowsOf(db, t))

\* execute_query("SELECT * FROM t"): the number of rows of the frame fetched
execute_query(db, isClosed, t) ==
    IF ConnectError(isClosed) # "none" THEN Raise(db)
    ELSE IF ~TableExists(db, t) THEN Raise(db)
    ELSE Ret(db, RowsOf(db, t))

\* a create_table that replaces a table already there
create_table_replacing(db, isClosed, t, data) ==
    IF ConnectError(isClosed) # "none" THEN Raise(db)
    ELSE Ret(DbCreate(db, t, data), -1)

\* create_table: CREATE TABLE from the generated DDL; ORA-00955 when the name
\* is taken, logged and re-raised
create_table(db, isClosed, t, data) ==
    IF ConnectError(isClosed) # "none" THEN Raise(db)
    ELSE IF TableExists(db, t) THEN Raise(db)
    ELSE Ret(DbCreate(db, t, data), -1)

\* drop_table: DROP TABLE t PURGE; ORA-00942 when there is no such table
drop_table(db, isClosed, t) ==
    IF ConnectError(isClosed) # "none" THEN Raise(db)
    ELSE IF ~TableExists(db, t) THEN Raise(db)
    ELSE Ret(DbDrop(db, t), -1)

\* truncate_table: TRUNCATE TABLE t; ORA-00942 when there is no such table
truncate_table(db, isClosed, t) ==
    IF ConnectError(isClosed) # "none" THEN Raise(db)
    ELSE IF ~TableExists(db, t) THEN Raise(db)
    ELSE Ret(DbTruncate(db, t), -1)

\* cursor.executemany(sql, data): the rows go in one after the other inside
\* the connection's transaction; the row fail_row (0: none) is rejected and
\* ends the statement with the rows before it inserted, not committed
Executemany(data, fail_row) ==
    [pending |-> IF fail_row = 0 THEN data.num_rows ELSE fail_row - 1,
     error |-> fail_row # 0]

\* conn.commit(): the pending rows become rows of the table
Commit(db, t, pending) ==
    IF pending = 0 THEN db ELSE [db EXCEPT ![DbName(t)].rows = @ + pending]

\* a connection handed back with its pending rows committed
ReleaseCommits(db, t, pending) ==
    IF pending = 0 THEN db ELSE [db EXCEPT ![DbName(t)].rows = @ + pending]

\* leaving "with odb.connect(...) as conn": the connection goes back to the
\* pool and what it has not committed is rolled back
Release(db, t, pending) == db

\* the rows at which an insert of data into t may be rejected: none when
\* there is no row to send, the first when the statement cannot run
FailRows(db, t, data) ==
    IF data.num_rows = 0 THEN {0}
    ELSE IF ~InsertRuns(db, t, data) THEN {1}
    ELSE 0..data.num_rows

\* insert_data: executemany, then one commit; an error leaves the with-block
\* before the commit
insert_data(db, isClosed, t, data, fail_row) ==
    LET sent == Executemany(data, fail_row)
    IN  IF ConnectError(isClosed) # "none" THEN Raise(db)
        ELSE IF sent.error THEN Raise(Release(db, t, sent.pending))
        ELSE Ret(Release(Commit(db, t, sent.pending), t, 0), -1)

\* cols = [f'"{c.upper()}"' for c in data.column_names], with the bind
\* position of each
MergeCols(data) ==
    [j \in DOMAIN data.schema |-> [col |-> Upper(data.schema[j].name), bind |-> j]]

\* the MERGE statement of upsert_data: ON the upper-cased key columns,
\* UPDATE SET every column whose upper-cased name is not in key_columns as
\* the caller wrote them, INSERT every column
MergeOf(data, key_columns) ==
    [on |-> [k \in DOMAIN key_columns |-> Upper(key_columns[k])],
     update |-> SelectSeq(MergeCols(data),
                          LAMBDA c : c.col \notin Range(key_columns)),
     insert |-> MergeCols(data)]

\* whether the database accepts the MERGE: the table and every column named
\* exist, UPDATE SET is not empty and names no column of the ON clause
\* (ORA-38104)
MergeRuns(db, t, data, key_columns) ==
    LET merge == MergeOf(data, key_columns)
    IN  /\ InsertRuns(db, t, data)
        /\ merge.on # <<>>
        /\ merge.update # <<>>
        /\ \A i \in DOMAIN merge.update : merge.update[i].col \notin Range(merge.on)

\* upsert_data: the MERGE once per row, then one commit; inserted is the
\* number of rows that matched no row of the table
upsert_data(db, isClosed, t, data, key_columns, inserted) ==
    IF ConnectError(isClosed) # "none" THEN Raise(db)
    ELSE IF data.num_rows = 0 THEN Ret(db, -1)
    ELSE IF ~MergeRuns(db, t, data, key_columns) THEN Raise(db)
    ELSE Ret(Release(Commit(db, t, inserted), t, 0), -1)

\* how many rows of data may match no row of t when the MERGE runs: none of
\* them or all of them
Unmatched(db, isClosed, t, data, key_columns) ==
    IF isClosed \/ data.num_rows = 0 THEN {0}
    ELSE IF ~MergeRuns(db, t, data, key_columns) THEN {0}
    ELSE {0, data.num_rows}

\* the key_columns a caller may pass with a table: its first column name,
\* as the table has it or upper-cased
KeyColumnsOf(data) == {<<data.schema[1].name>>, <<Upper(data.schema[1].name)>>}

InitLoader ==
    /\ ppc = "off" /\ pstamp = Stamp(1) /\ pkey = KeyNone
    /\ pframe = NoFrame /\ pres = NoFrame /\ pres2 = NoFrame
    /\ PipelineIdle
    /\ LoaderIdle /\ DdlIdle

\* the caller gets r from the method op called on table t
Called(op, t, r, n, fail_row, key_columns, sql) ==
    /\ tables' = r.db
    /\ lres' = [op |-> op, table |-> t, raised |-> r.raised, value |-> r.value,
                rows |-> n, fail_row |-> fail_row,
                key_columns |-> key_columns, before |-> tables,
                sql |-> sql]
    /\ UNCHANGED <<endpoints, mode, prefix, pc, runs, result, ei, ki,
                   fetches, yielded, calls, log>>
    /\ UNCHANGED pvars
    /\ UNCHANGED dvars

CallTestConnection ==
    /\ Called("test_connection", <<>>, test_connection(tables, closed), 0, 0, <<>>, NoMerge)
    /\ UNCHANGED closed

CallCheckTableExists ==
    \E t \in LoaderTableNames :
        /\ Called("check_table_exists", t, check_table_exists(tables, closed, t),
                  0, 0, <<>>, NoMerge)
        /\ UNCHANGED closed

CallCountRows ==
    \E t \in LoaderTableNames :
        /\ Called("count_rows", t, count_rows(tables, closed, t), 0, 0, <<>>, NoMerge)
        /\ UNCHANGED closed

CallExecuteQuery ==
    \E t \in LoaderTableNames :
        /\ Called("execute_query", t, execute_query(tables, closed, t), 0, 0, <<>>, NoMerge)
        /\ UNCHANGED closed

CallCreateTable ==
    \E t \in LoaderTableNames, data \in LoaderData :
        /\ Called("create_table", t, create_table(tables, closed, t, data),
                  data.num_rows, 0, <<>>, NoMerge)
        /\ UNCHANGED closed

CallDropTable ==
    \E t \in LoaderTableNames :
        /\ Called("drop_table", t, drop_table(tables, closed, t), 0, 0, <<>>, NoMerge)
        /\ UNCHANGED closed

CallTruncateTable ==
    \E t \in LoaderTableNames :
        /\ Called("truncate_table", t, truncate_table(tables, closed, t), 0, 0, <<>>, NoMerge)
        /\ UNCHANGED closed

CallInsertData ==
    \E t \in LoaderTableNames, data \in LoaderData :
        \E fail_row \in FailRows(tables, t, data) :
            /\ RowsOf(tables, t) + data.num_rows <= MaxTableRows
            /\ closed => fail_row = 0
            /\ Called("insert_data", t,
                      insert_data(tables, closed, t, data, fail_row),
                      data.num_rows, fail_row, <<>>, NoMerge)
            /\ UNCHANGED closed

CallUpsertData ==
    \E t \in LoaderTableNames, data \in LoaderData :
        \E key_columns \in KeyColumnsOf(data) :
            \E inserted \in Unmatched(tables, closed, t, data, key_columns) :
                /\ RowsOf(tables, t) + data.num_rows <= MaxTableRows
                /\ Called("upsert_data", t,
                          upsert_data(tables, closed, t, data, key_columns, inserted),
                          data.num_rows, 0, key_columns,
                          IF closed THEN NoMerge ELSE MergeOf(data, key_columns))
                /\ UNCHANGED closed

\* close: the pool, when there still is one, is closed; a DatabaseError is
\* logged and not raised again
CallClose ==
    /\ closed' = TRUE
    /\ Called("close", <<>>, Ret(tables, -1), 0, 0, <<>>, NoMerge)

NextLoader ==
    \/ CallTestConnection \/ CallCheckTableExists \/ CallCountRows
    \/ CallExecuteQuery \/ CallCreateTable \/ CallDropTable
    \/ CallTruncateTable \/ CallInsertData \/ CallUpsertData \/ CallClose

SpecLoader == InitLoader /\ [][NextLoader]_vars

(***************************************************************************)
(* OracleDBLoader.generate_oracle_ddl on its own (specification SpecDdl).  *)
(* A pyarrow type is held by the name pyarrow prints for it, a text value  *)
(* by its length, a missing value by None.                                 *)
(***************************************************************************)
None == -1

Max2(a, b) == IF a >= b THEN a ELSE b

Min2(a, b) == IF a <= b THEN a ELSE b

\* a Python str held as a sequence of characters, as one string
RECURSIVE Text(_)
Text(s) == IF s = <<>> THEN "" ELSE s[1] \o Text(Tail(s))

\* sep.join(parts)
RECURSIVE Join(_, _)
Join(sep, parts) ==
    IF parts = <<>> THEN ""
    ELSE IF Len(parts) = 1 THEN parts[1]
    ELSE parts[1] \o sep \o Join(sep, Tail(parts))

\* the decimal types pa.types.is_decimal holds for, and their precision and
\* scale; "decimal128(?)" stands for a decimal type whose precision or scale
\* raises when read
DecimalTypes == {"decimal128(10, 2)", "decimal128(38, 0)", "decimal128(?)"}

PrecisionReadable(t) == t \in {"decimal128(10, 2)", "decimal128(38, 0)"}

precision(t) == IF t = "decimal128(10, 2)" THEN 10 ELSE 38

scale(t) == IF t = "decimal128(10, 2)" THEN 2 ELSE 0

\* pa.types.is_integer: the signed and unsigned integers of every width
is_integer(t) ==
    t \in {"int8", "int16", "int32", "int64", "uint8", "uint16", "uint32", "uint64"}

\* max((len(x) for x in column.to_pylist() if x is not None), default=0)
RECURSIVE MaxLen(_)
MaxLen(column) ==
    IF column = <<>> THEN 0
    ELSE IF column[1] = None THEN MaxLen(Tail(column))
    ELSE Max2(column[1], MaxLen(Tail(column)))

\* a text type that caps the bound at 4000 and never falls back to CLOB
StringTypeCapped(column) ==
    "VARCHAR2(" \o ToString(Min2(Max2(255, MaxLen(column) * 3), 4000)) \o ")"

\* the is_string branch: length = max(255, int(max_len * 3)); VARCHAR2 of
\* that length when it is at most 4000, CLOB otherwise
StringType(column) ==
    IF Max2(255, MaxLen(column) * 3) <= 4000
    THEN "VARCHAR2(" \o ToString(Min2(Max2(255, MaxLen(column) * 3), 4000)) \o ")"
    ELSE "CLOB"

\* _field_to_oracle_type(field, column): the tests pa.types.is_decimal,
\* is_integer, is_float64, is_float32, is_boolean, is_large_binary or
\* is_binary, is_timestamp (tz set or not), is_large_string, is_string,
\* is_list or is_struct, in this order; is_list holds for list<...> only,
\* not for large_list<...>
FieldToOracleType(field, column) ==
    IF field.type \in DecimalTypes
    THEN IF PrecisionReadable(field.type)
         THEN "NUMBER(" \o ToString(precision(field.type)) \o ","
                  \o ToString(scale(field.type)) \o ")"
         ELSE "NUMBER"
    ELSE IF is_integer(field.type) THEN "NUMBER"
    ELSE IF field.type = "double" THEN "BINARY_DOUBLE"
    ELSE IF field.type = "float" THEN "BINARY_FLOAT"
    ELSE IF field.type = "bool" THEN "NUMBER(1)"
    ELSE IF field.type = "large_binary" \/ field.type = "binary" THEN "BLOB"
    ELSE IF field.type = "timestamp[us, tz=UTC]" THEN "TIMESTAMP WITH TIME ZONE"
    ELSE IF field.type = "timestamp[us]" THEN "TIMESTAMP"
    ELSE IF field.type = "large_string" THEN "CLOB"
    ELSE IF field.type = "string" THEN StringType(column)
    ELSE IF field.type = "list" \/ field.type = "struct" THEN "BLOB"
    ELSE "CLOB"

\* a column definition that writes the column name as it comes
ColumnDefAsWritten(col_name, oracle_type) ==
    "    \"" \o Text(col_name) \o "\" " \o oracle_type

\* f'    "{col_name.upper()}" {oracle_type}'
ColumnDef(col_name, oracle_type) ==
    "    \"" \o Text(Upper(col_name)) \o "\" " \o oracle_type

\* column_defs after the loop over table.schema
ColumnDefs(table) ==
    [j \in DOMAIN table.schema |->
        ColumnDef(table.schema[j].name,
                  FieldToOracleType(table.schema[j], table.columns[j]))]

\* generate_oracle_ddl(table, table_name)
generate_oracle_ddl(table, table_name) ==
    "CREATE TABLE \"" \o Text(Upper(table_name)) \o "\" (\n"
        \o Join(",\n", ColumnDefs(table)) \o "\n)"

\* the types and the text columns the function is tried on; the tables have
\* two rows or none
OtherTypes ==
    DecimalTypes
    \cup {"int8", "int32", "int64", "uint8", "uint64", "double", "float",
          "halffloat", "bool", "binary", "large_binary", "timestamp[us]",
          "timestamp[us, tz=UTC]", "large_string", "list", "large_list",
          "struct", "date32", "null"}

TextColumns ==
    {<<None, None>>, <<50, None>>, <<None, 2000>>, <<2000, 50>>,
     <<10000, None>>, <<1333, 85>>, <<1334, None>>, <<86, 0>>}

\* the columns a table of h rows may have: type and values
DdlColumns(h) ==
    {[type |-> t, vals |-> [i \in 1..h |-> IF t = "bool" THEN 1 ELSE None]] :
        t \in OtherTypes}
    \cup {[type |-> "string", vals |-> v] :
             v \in IF h = 0 THEN {<<>>} ELSE TextColumns}

DdlNames == <<s_id, s_Events, s_city>>

DdlTable(h, n, f) ==
    ArrowTable(h, [j \in 1..n |-> Field(DdlNames[j], f[j].type)],
               [j \in 1..n |-> f[j].vals])

InitDdl ==
    /\ pstamp = Stamp(1) /\ pkey = KeyNone
    /\ pframe = NoFrame /\ pres = NoFrame /\ pres2 = NoFrame
    /\ PipelineIdle /\ LoaderIdle
    /\ ppc = "ddl"
    /\ \E h \in {0, 2}, n \in 1..MaxDdlCols :
          \E f \in [1..n -> DdlColumns(h)], t \in {s_dumdum, s_FPL_EVENTS} :
              ddl_in = [table |-> DdlTable(h, n, f), table_name |-> t]
    /\ ddl_out = NoDdl

\* ddl = loader.generate_oracle_ddl(table, table_name)
GenerateDdl ==
    /\ ppc = "ddl"
    /\ ddl_out' = [ddl |-> generate_oracle_ddl(ddl_in.table, ddl_in.table_name),
                   column_defs |-> ColumnDefs(ddl_in.table),
                   again |-> ""]
    /\ ppc' = "ddl_done"
    /\ UNCHANGED <<pstamp, pkey, pframe, pres, pres2, ddl_in>>
    /\ UNCHANGED gvars
    /\ UNCHANGED lvars

\* the same call once more
GenerateDdlAgain ==
    /\ ppc = "ddl_done"
    /\ ddl_out' = [ddl_out EXCEPT
                      !.again = generate_oracle_ddl(ddl_in.table, ddl_in.table_name)]
    /\ ppc' = "ddl_twice"
    /\ UNCHANGED <<pstamp, pkey, pframe, pres, pres2, ddl_in>>
    /\ UNCHANGED gvars
    /\ UNCHANGED lvars

NextDdl == GenerateDdl \/ GenerateDdlAgain

SpecDdl == InitDdl /\ [][NextDdl]_vars

(***************************************************************************)
(* Claims about parse and clean_df (checked under SpecPure).               *)
(***************************************************************************)
HasStampColumns(df) == \A j \in DOMAIN StampColumns : StampColumns[j] \in Range(ColumnNames(df))

\* C3: for every fetch whose response_code is not 200 and every key (given
\* or None), parse returns a buffer with zero rows whose columns are exactly
\* the four stamp columns.
C3_FailureGivesEmptySkeleton ==
    (ppc = "parsed" /\ pstamp.response_code # 200)
        => /\ pres.height = 0
           /\ ColumnNames(pres) = StampColumns
           /\ \A j \in DOMAIN pres.cols : Len(pres.cols[j].vals) = 0

C3_Witness ==
    /\ ppc = "parsed" /\ pstamp.response_code = 500 /\ pkey = Key(s_events)
    /\ pres.height = 0 /\ Len(pres.cols) = 4

\* C4: for every fetch with response_code 200 and a key that is missing from
\* the JSON body (or present with a null / empty value), parse returns a
\* buffer with zero rows in which the four stamp columns are present.
C4_MissingKeyGivesZeroRows ==
    (/\ ppc = "parsed" /\ pstamp.response_code = 200 /\ pkey.some
     /\ ~Truthy(JsonGet(pstamp.response, pkey.val)))
        => (pres.height = 0 /\ HasStampColumns(pres))

\* what clean_df is to return for buffer b: the non-nested columns of b in
\* their order, a Boolean column as Int8 with true -> 1, false -> 0,
\* null -> null, every other column as it is
IsNormalOf(b, r) ==
    LET keep == SelectSeq(b.cols, LAMBDA c : c.dtype \notin {"List", "Struct"})
    IN /\ Len(r.cols) = Len(keep)
       /\ \A j \in DOMAIN keep :
            IF keep[j].dtype = "Boolean"
            THEN /\ r.cols[j].name = keep[j].name
                 /\ r.cols[j].dtype = "Int8"
                 /\ Len(r.cols[j].vals) = Len(keep[j].vals)
                 /\ \A i \in DOMAIN keep[j].vals :
                      /\ keep[j].vals[i] = "true" => r.cols[j].vals[i] = "1"
                      /\ keep[j].vals[i] = "false" => r.cols[j].vals[i] = "0"
                      /\ keep[j].vals[i] = "null" => r.cols[j].vals[i] = "null"
            ELSE r.cols[j] = keep[j]

\* C5: clean_df drops every list / struct column and replaces every boolean
\* column by an Int8 column (true -> 1, false -> 0, null -> null), leaving
\* the other columns unchanged; its result has no boolean, list or struct
\* column, and applying it to its own result changes nothing.
C5_CleanNormalizesAndIsIdempotent ==
    /\ ppc \in {"cleaned", "cleaned2"} =>
          /\ IsNormalOf(pframe, pres)
          /\ \A j \in DOMAIN pres.cols :
                pres.cols[j].dtype \notin {"Boolean", "List", "Struct"}
    /\ ppc = "cleaned2" => pres2 = pres

C5_Witness ==
    /\ ppc = "cleaned2"
    /\ pframe.height = 2 /\ Len(pframe.cols) = 2
    /\ pframe.cols[1].dtype = "Struct"
    /\ pframe.cols[2].dtype = "Boolean" /\ pframe.cols[2].vals = <<"true", "null">>
    /\ pres.cols = <<Column(<<"b">>, "Int8", <<"1", "null">>)>>
    /\ pres2 = pres


(***************************************************************************)
(* Claims about the pipeline, the generator and the loader (under Spec).   *)
(***************************************************************************)
IsPrefix(a, b) == Len(a) <= Len(b) /\ \A i \in DOMAIN a : a[i] = b[i]

Returned == pc = "idle" /\ result = "returned"

\* C1 as the specification states it: the loader is called with
\* table_name = uppercase(prefix) + "_" + uppercase(name).
C1_TableNameUppercasesPrefixAndName ==
    \A i \in DOMAIN calls :
        calls[i].table_name = Upper(prefix) \o <<"_">> \o Upper(yielded[i].name)

\* C1, amended: the loader is called with table_name = prefix + "_" +
\* uppercase(name): the logical name is upper-cased and the prefix is used as
\* written, so prefix "FPL" with logical name "Events" or "events" gives
\* "FPL_EVENTS".
C1_TableNameKeepsPrefixUppercasesName ==
    \A i \in DOMAIN calls :
        /\ calls[i].table_name = prefix \o <<"_">> \o Upper(yielded[i].name)
        /\ (prefix = s_FPL /\ yielded[i].name \in {s_Events, s_events})
              => calls[i].table_name = s_FPL_EVENTS

C1_Witness ==
    /\ calls # <<>> /\ prefix = s_fpl_lower
    /\ yielded[Len(calls)].name = s_Events
    /\ CurCall.table_name = <<"f","p","l","_","E","V","E","N","T","S">>

\* C2: rebuild makes exactly one rebuild_table call, and reload exactly one
\* reload_table call, per item yielded by generate(), in the order of the
\* items and with that item's converted buffer as data; rebuild never calls
\* reload_table and reload never rebuild_table; no item, no call.
C2_OneLoaderCallPerItemInOrder ==
    /\ Len(calls) = IF pc = "yielded" THEN Len(yielded) - 1 ELSE Len(yielded)
    /\ \A i \in DOMAIN calls :
          /\ mode = "rebuild" => calls[i].op = "rebuild_table"
          /\ mode = "reload" => calls[i].op = "reload_table"
          /\ calls[i].data.num_rows = yielded[i].df.height
          /\ Len(calls[i].data.schema) = Len(yielded[i].df.cols)
          /\ \A j \in DOMAIN yielded[i].df.cols :
                /\ calls[i].data.schema[j].name = yielded[i].df.cols[j].name
                /\ calls[i].data.columns[j] = yielded[i].df.cols[j].vals
    /\ (endpoints = CfgEmpty /\ pc # "off") => calls = <<>>

C2_Witness ==
    /\ Returned /\ mode = "reload" /\ Len(calls) = 2 /\ Len(yielded) = 2
    /\ calls[1].op = "reload_table" /\ calls[2].op = "reload_table"
    /\ calls[1].data.num_rows = 2

\* the items an endpoint configuration stands for: per endpoint, in order,
\* its sub-keys, or the endpoint itself when it has none
RECURSIVE ExpectedItems(_)
ExpectedItems(cfg) ==
    IF cfg = <<>> THEN <<>>
    ELSE (IF Head(cfg).keys = <<>>
          THEN <<[e |-> Head(cfg).e, key |-> KeyNone, name |-> Head(cfg).e]>>
          ELSE [j \in DOMAIN Head(cfg).keys |->
                   [e |-> Head(cfg).e, key |-> Key(Head(cfg).keys[j]),
                    name |-> Head(cfg).keys[j]]])
         \o ExpectedItems(Tail(cfg))

LastGetRaised == fetches # <<>> /\ fetches[Len(fetches)].raised

\* C6: generate() walks the configuration in order and issues exactly one
\* HTTP GET per yielded item: one item per sub-key, named by the sub-key, or
\* one item named by the endpoint when it has no sub-key; the configuration
\* {"bootstrap-static": ["events"], "fixtures": []} drives exactly two
\* fetches and yields "events" then "fixtures".
C6_GenerateOneFetchPerItemInConfiguredOrder ==
    LET exp == ExpectedItems(endpoints)
    IN /\ Len(yielded) <= Len(exp)
       /\ Len(fetches) = Len(yielded) + (IF LastGetRaised THEN 1 ELSE 0)
       /\ \A i \in DOMAIN yielded :
             /\ yielded[i].name = exp[i].name
             /\ fetches[i].url.path = exp[i].e
             /\ fetches[i].key = exp[i].key
             /\ ~fetches[i].raised
       /\ Returned => Len(yielded) = Len(exp)
       /\ (Returned /\ endpoints = CfgScenario)
             => /\ Len(fetches) = 2
                /\ yielded[1].name = s_events /\ yielded[2].name = s_fixtures

C6_Witness ==
    /\ Returned /\ endpoints = CfgScenario
    /\ Len(fetches) = 2 /\ Len(yielded) = 2
    /\ fetches[1].key = Key(s_events) /\ fetches[2].key = KeyNone

\* C7: for an endpoint without sub-keys whose fetch returns 200, the yielded
\* buffer is the buffer of the whole response body: one row per element of
\* the body, with the body's (non-nested) fields as data columns.
C7_WholeBodyBecomesTheBuffer ==
    \A i \in DOMAIN yielded :
        (~fetches[i].key.some /\ fetches[i].resp.status_code = 200)
            => LET whole == clean_df(DataFrame(fetches[i].resp.body.items))
               IN /\ yielded[i].df.height = Len(fetches[i].resp.body.items)
                  /\ \A j \in DOMAIN whole.cols :
                        whole.cols[j].name \in Range(ColumnNames(yielded[i].df))

\* the log entries of item n, in order
EntriesOf(n) == SelectSeq(log, LAMBDA x : x.item = n)

OpsOf(n) == [j \in DOMAIN EntriesOf(n) |-> EntriesOf(n)[j].op]

RebuildOps(existed) ==
    IF existed
    THEN <<"get", "check_table_exists", "drop_table", "create_table", "insert_data">>
    ELSE <<"get", "check_table_exists", "create_table", "insert_data">>

\* C8: rebuild performs, table after table in the order of the items, the
\* operations drop (only when the table exists), create, insert in that
\* order, and the operations of two tables never overlap: every operation of
\* an item is over before the fetch of the next; rebuild("FPL") over the
\* items events, players works on FPL_EVENTS and then on FPL_PLAYERS.
C8_RebuildDropCreateInsertPerTableInOrder ==
    mode = "rebuild" =>
       /\ \A i, j \in DOMAIN log : i < j => log[i].item <= log[j].item
       /\ \A n \in DOMAIN yielded :
             LET es == EntriesOf(n)
             IN /\ Len(es) >= 1
                /\ IF Len(es) >= 2
                   THEN IsPrefix(OpsOf(n), RebuildOps(es[2].ok))
                   ELSE OpsOf(n) = <<"get">>
                /\ \A j \in DOMAIN es :
                      (j >= 2) => es[j].table = Upper(calls[n].table_name)
                /\ (n < Len(yielded) \/ Returned)
                      => /\ OpsOf(n) = RebuildOps(es[2].ok)
                         /\ \A j \in DOMAIN es : j > 2 => es[j].ok
       /\ (endpoints = CfgTwoKeys /\ prefix = s_FPL /\ Returned)
             => /\ Len(yielded) = 2
                /\ EntriesOf(1)[2].table = s_FPL_EVENTS
                /\ EntriesOf(2)[2].table = s_FPL_PLAYERS

C8_Witness ==
    /\ mode = "rebuild" /\ endpoints = CfgTwoKeys /\ prefix = s_FPL /\ Returned
    /\ OpsOf(1) = RebuildOps(TRUE)
    /\ OpsOf(2) = RebuildOps(FALSE)
    /\ log[5].table = s_FPL_EVENTS /\ log[6].op = "get"
    /\ log[9].table = s_FPL_PLAYERS

\* C9: reload_table on a table that exists (and holds rows) truncates it, so
\* that it has no row, before inserting, and when it returns the table has
\* as many rows as the data, whatever it held before and however often
\* reload ran.
C9_ReloadTruncatesThenHoldsDataRows ==
    \A n \in DOMAIN calls :
        LET es == EntriesOf(n)
        IN (calls[n].op = "reload_table" /\ Len(es) >= 2 /\ es[2].ok)
              => /\ Len(es) >= 3 => (es[3].op = "truncate_table" /\ es[3].ok
                                       /\ es[3].rows = 0)
                 /\ Len(es) >= 4 => es[4].op = "insert_data"
                 /\ (Len(es) >= 4 /\ es[4].ok)
                        => /\ es[4].rows = calls[n].data.num_rows
                           /\ (n = Len(calls) /\ pc = "gen")
                                 => RowsOf(tables, calls[n].table_name)
                                        = calls[n].data.num_rows

C9_Witness ==
    /\ runs = 3 /\ mode = "reload" /\ pc = "gen" /\ Len(calls) = 2
    /\ Len(EntriesOf(2)) = 4
    /\ EntriesOf(2)[2].ok /\ EntriesOf(2)[2].rows = 1
    /\ EntriesOf(2)[3].op = "truncate_table" /\ EntriesOf(2)[3].rows = 0
    /\ EntriesOf(2)[4].ok /\ EntriesOf(2)[4].rows = 3
    /\ RowsOf(tables, CurCall.table_name) = 3

\* C10 as the specification states it: reload_table on a table that does
\* not exist skips the truncate, attempts the insert and signals a failure;
\* it never creates the table and never returns silently.
C10_ReloadOfMissingTableAlwaysFails ==
    \A n \in DOMAIN calls :
        LET es == EntriesOf(n)
        IN (calls[n].op = "reload_table" /\ Len(es) >= 2 /\ ~es[2].ok)
              => /\ Len(es) >= 3 => (es[3].op = "insert_data" /\ ~es[3].ok)
                 /\ ~TableExists(tables, calls[n].table_name)

\* C10, amended: reload_table on a table that does not exist skips the
\* truncate and goes to the insert, and never creates the table; with data
\* of at least one row the insert signals a failure to the caller, with
\* data of no row nothing is sent to the database and the call returns
\* normally.
C10_ReloadOfMissingTableFailsUnlessNoRows ==
    \A n \in DOMAIN calls :
        LET es == EntriesOf(n)
        IN (calls[n].op = "reload_table" /\ Len(es) >= 2 /\ ~es[2].ok)
              => /\ Len(es) <= 3
                 /\ Len(es) = 3 =>
                       /\ es[3].op = "insert_data"
                       /\ es[3].ok = (calls[n].data.num_rows = 0)
                       /\ es[3].rows = -1
                       /\ ~es[3].ok => (n = Len(calls) /\ pc = "idle" /\ result = "raised")
                 /\ ~TableExists(tables, calls[n].table_name)

C10_Witness ==
    /\ mode = "reload" /\ pc = "idle" /\ result = "raised" /\ Len(calls) = 1
    /\ Len(log) = 3 /\ ~log[2].ok
    /\ log[3].op = "insert_data" /\ ~log[3].ok
    /\ CurCall.data.num_rows = 2
    /\ tables = <<>>


(***************************************************************************)
(* Claims about the loader called directly (specification SpecLoader).     *)
(***************************************************************************)

\* C11: once close() has released the pool, every later call of the loader
\* (test_connection, create, drop, truncate, insert, upsert, check-exists,
\* count-rows, execute_query) raises to the caller; none returns normally.
C11_EveryCallAfterCloseRaises ==
    (closed /\ lres.op \notin {"none", "close"}) => lres.raised

\* the tables other than t are the same in db and in before
OthersSame(db, before, t) ==
    /\ DOMAIN db \ {Upper(t)} = DOMAIN before \ {Upper(t)}
    /\ \A n \in DOMAIN db \ {Upper(t)} : db[n] = before[n]

\* C12: insert_data is all-or-nothing per call: when it raises (the insert of
\* some row failed), the tables are the same as before the call; when it
\* returns, the table holds all the rows of the batch on top of its rows
\* before, and nothing else has changed.
C12_InsertDataIsAllOrNothing ==
    lres.op = "insert_data" =>
        IF lres.raised
        THEN tables = lres.before
        ELSE /\ OthersSame(tables, lres.before, lres.table)
             /\ lres.rows > 0 =>
                   /\ Upper(lres.table) \in DOMAIN lres.before
                   /\ Upper(lres.table) \in DOMAIN tables
                   /\ tables[Upper(lres.table)].cols = lres.before[Upper(lres.table)].cols
                   /\ tables[Upper(lres.table)].rows =
                         lres.before[Upper(lres.table)].rows + lres.rows
             /\ lres.rows = 0 => tables = lres.before

\* the second of three rows was rejected, after the first had gone in
C12_Witness ==
    /\ lres.op = "insert_data" /\ ~closed /\ lres.raised
    /\ lres.rows = 3 /\ lres.fail_row = 2
    /\ Upper(lres.table) \in DOMAIN tables
    /\ tables[Upper(lres.table)].rows = 0

\* C15: for every data table and every key_columns list among its column
\* names, in whatever letter case, the MERGE of upsert_data matches on
\* exactly the key columns, updates every non-key column and no key column
\* when matched, and inserts the full row with every column when not matched.
C15_MergeMatchesKeysUpdatesTheRest ==
    (lres.op = "upsert_data" /\ lres.sql # NoMerge) =>
        LET keys == {Upper(lres.key_columns[k]) : k \in DOMAIN lres.key_columns}
            merge == lres.sql
        IN /\ {merge.on[k] : k \in DOMAIN merge.on} = keys
           /\ Len(merge.on) = Len(lres.key_columns)
           /\ \A j \in DOMAIN merge.insert : merge.insert[j].bind = j
           /\ {merge.update[i] : i \in DOMAIN merge.update}
                 = {merge.insert[j] : j \in {i \in DOMAIN merge.insert :
                                                merge.insert[i].col \notin keys}}
           /\ \A i \in DOMAIN merge.update : merge.update[i].col \notin keys

\* C16: after create_table(T) succeeds, check_table_exists(T) is true and
\* count_rows(T) is 0; after insert_data of n rows into T, count_rows(T) has
\* grown by exactly n; after drop_table(T) succeeds, check_table_exists(T) is
\* false; check_table_exists and count_rows change no table.
C16_TableLifecycle ==
    /\ (lres.op = "create_table" /\ ~lres.raised) =>
          /\ check_table_exists(tables, closed, lres.table) = Ret(tables, 1)
          /\ count_rows(tables, closed, lres.table) = Ret(tables, 0)
    /\ (lres.op = "insert_data" /\ ~lres.raised /\ lres.rows > 0) =>
          /\ ~count_rows(lres.before, FALSE, lres.table).raised
          /\ ~count_rows(tables, closed, lres.table).raised
          /\ count_rows(tables, closed, lres.table).value
                = count_rows(lres.before, FALSE, lres.table).value + lres.rows
    /\ (lres.op = "insert_data" /\ ~lres.raised /\ lres.rows = 0) =>
          count_rows(tables, closed, lres.table)
              = count_rows(lres.before, FALSE, lres.table)
    /\ (lres.op = "drop_table" /\ ~lres.raised) =>
          check_table_exists(tables, closed, lres.table) = Ret(tables, 0)
    /\ lres.op \in {"check_table_exists", "count_rows"} => tables = lres.before

\* count_rows of a table named in lower case gives 3, after it was created
\* and three rows were inserted
C16_Witness ==
    /\ lres.op = "count_rows" /\ ~lres.raised
    /\ lres.table = s_dumdum /\ lres.value = 3
    /\ tables = lres.before

\* C17: create_table on a table that exists raises and leaves the table in
\* place with its columns and rows; drop_table and truncate_table on a table
\* that does not exist raise and create nothing.
C17_CreateExistingAndDropMissingRaise ==
    /\ (lres.op = "create_table" /\ Upper(lres.table) \in DOMAIN lres.before) =>
          lres.raised /\ tables = lres.before
    /\ (lres.op \in {"drop_table", "truncate_table"}
            /\ Upper(lres.table) \notin DOMAIN lres.before) =>
          lres.raised /\ tables = lres.before

\* create_table raised on a table that holds three rows, and the rows stay
C17_Witness ==
    /\ lres.op = "create_table" /\ lres.raised /\ ~closed
    /\ Upper(lres.table) \in DOMAIN tables
    /\ tables[Upper(lres.table)].rows = 3
    /\ tables[Upper(lres.table)].cols =
          << <<"N","A","M","E">>, <<"A","G","E">>, <<"C","I","T","Y">> >>
    /\ tables = lres.before

(***************************************************************************)
(* Claims about a failing pipeline run (specification Spec).               *)
(***************************************************************************)

\* a fetch or a loader operation that raised
Failed(e) == ~e.ok /\ e.op # "check_table_exists"

\* the database names of the tables of the items before item n of this run
EarlierTables(n) == {Upper(calls[m].table_name) : m \in 1..(n - 1)}

\* after a failure at item N: it is the last thing the run did, the call has
\* raised, nothing was fetched or handed to the loader for a later item, no
\* item was fetched twice, and the table of every earlier item holds the rows
\* its own load left in it
C13_AbortedAtTheFailingItem ==
    \A i \in DOMAIN log :
        Failed(log[i]) =>
            /\ i = Len(log)
            /\ pc = "idle" /\ result = "raised"
            /\ Len(fetches) = log[i].item
            /\ Len(calls) <= log[i].item
            /\ \A j, k \in DOMAIN log :
                  (log[j].op = "get" /\ log[k].op = "get" /\ j # k)
                      => log[j].item # log[k].item
            /\ \A j \in DOMAIN log :
                  (log[j].op = "insert_data" /\ log[j].item < log[i].item)
                      => /\ log[j].ok
                         /\ RowsOf(tables, log[j].table) = log[j].rows

\* while a run works on item N, no step touches the table of an earlier item
C13_EarlierTablesStay ==
    (pc # "idle" /\ calls' # <<>>) =>
        \A n \in EarlierTables(Len(calls')) :
            /\ (n \in DOMAIN tables) <=> (n \in DOMAIN tables')
            /\ n \in DOMAIN tables => tables'[n] = tables[n]

\* C13: when the fetch or the load of item N fails during rebuild or reload,
\* the failure reaches the caller, no fetch and no loader call is made for an
\* item after N, and the tables loaded for items 1..N-1 stay exactly as their
\* load left them (nothing is rolled back, nothing is tried again).
C13_FailureAbortsAndKeepsEarlierTables ==
    [](C13_AbortedAtTheFailingItem) /\ [][C13_EarlierTablesStay]_vars

\* the load of the second item failed after the first item's table was
\* loaded with rows
C13_Witness ==
    /\ log # <<>>
    /\ Failed(log[Len(log)]) /\ log[Len(log)].item = 2
    /\ log[Len(log)].op # "get"
    /\ result = "raised"
    /\ \E j \in DOMAIN log :
          /\ log[j].op = "insert_data" /\ log[j].item = 1 /\ log[j].rows > 0
          /\ RowsOf(tables, log[j].table) = log[j].rows

(***************************************************************************)
(* Claims about generate_oracle_ddl (specification SpecDdl).               *)
(***************************************************************************)

DdlDone == ppc \in {"ddl_done", "ddl_twice"}

\* the columns of the input table that are text columns
TextColumnsOf(table) == {j \in DOMAIN table.schema : table.schema[j].type = "string"}

\* the lengths sampled from a column, and the longest of them (0 without any)
Sampled(column) == {column[i] : i \in DOMAIN column} \ {None}

Longest(column) ==
    IF Sampled(column) = {} THEN 0
    ELSE CHOOSE l \in Sampled(column) : \A k \in Sampled(column) : k <= l

\* the column definition that gives column j of the input table the type ty
DefWith(j, ty) ==
    "    \"" \o Text(Upper(ddl_in.table.schema[j].name)) \o "\" " \o ty

\* the type of a text column by the rule: max(255, 3 x longest) when that is
\* at most 4000, CLOB beyond
TextRule(column) ==
    IF 3 * Longest(column) <= 255 THEN "VARCHAR2(255)"
    ELSE IF 3 * Longest(column) <= 4000
    THEN "VARCHAR2(" \o ToString(3 * Longest(column)) \o ")"
    ELSE "CLOB"

\* C14 as stated: a text column gets a bounded type from its longest sampled
\* value: 50 characters give 255, 2000 characters give 4000 (capped), 10,000
\* characters give CLOB, no sampled value gives 255.
C14_TextBoundCappedAt4000 ==
    DdlDone =>
        \A j \in TextColumnsOf(ddl_in.table) :
            LET column == ddl_in.table.columns[j]
                def == ddl_out.column_defs[j]
            IN /\ Longest(column) = 50 => def = DefWith(j, "VARCHAR2(255)")
               /\ Longest(column) = 2000 => def = DefWith(j, "VARCHAR2(4000)")
               /\ Longest(column) = 10000 => def = DefWith(j, "CLOB")
               /\ Sampled(column) = {} => def = DefWith(j, "VARCHAR2(255)")

\* C14, amended: the bound of a text column is max(255, 3 x longest sampled
\* value); a bound of at most 4000 gives VARCHAR2(bound), a larger one gives
\* CLOB and nothing is capped: 50 characters give VARCHAR2(255), 1333 give
\* VARCHAR2(3999), 1334, 2000 and 10,000 give CLOB, no sampled value gives
\* VARCHAR2(255).
C14_TextBoundIsThreeTimesLongestOrClob ==
    DdlDone =>
        \A j \in TextColumnsOf(ddl_in.table) :
            LET column == ddl_in.table.columns[j]
                def == ddl_out.column_defs[j]
            IN /\ def = DefWith(j, TextRule(column))
               /\ Longest(column) = 50 => def = DefWith(j, "VARCHAR2(255)")
               /\ Longest(column) = 1333 => def = DefWith(j, "VARCHAR2(3999)")
               /\ Longest(column) = 1334 => def = DefWith(j, "CLOB")
               /\ Longest(column) = 2000 => def = DefWith(j, "CLOB")
               /\ Longest(column) = 10000 => def = DefWith(j, "CLOB")
               /\ Sampled(column) = {} => def = DefWith(j, "VARCHAR2(255)")

\* a text column whose longest value has 2000 characters came out as CLOB
C14_Witness ==
    /\ ppc = "ddl_done"
    /\ \E j \in TextColumnsOf(ddl_in.table) :
          /\ Longest(ddl_in.table.columns[j]) = 2000
          /\ 50 \in Sampled(ddl_in.table.columns[j])
          /\ ddl_out.column_defs[j] = DefWith(j, "CLOB")

\* the fixed mapping of the types that are not text
MappedType(t) ==
    CASE t = "decimal128(10, 2)" -> "NUMBER(10,2)"
      [] t = "decimal128(38, 0)" -> "NUMBER(38,0)"
      [] t = "decimal128(?)" -> "NUMBER"
      [] t \in {"int8", "int16", "int32", "int64",
                "uint8", "uint16", "uint32", "uint64"} -> "NUMBER"
      [] t = "double" -> "BINARY_DOUBLE"
      [] t = "float" -> "BINARY_FLOAT"
      [] t = "bool" -> "NUMBER(1)"
      [] t \in {"binary", "large_binary"} -> "BLOB"
      [] t = "timestamp[us, tz=UTC]" -> "TIMESTAMP WITH TIME ZONE"
      [] t = "timestamp[us]" -> "TIMESTAMP"
      [] t = "large_string" -> "CLOB"
      [] t \in {"list", "struct"} -> "BLOB"
      [] OTHER -> "CLOB"

\* C18: generate_oracle_ddl is a function of the table's schema and sampled
\* text values: one column definition per input column, in the input order,
\* the name upper-cased and double-quoted, the type by the fixed mapping (a
\* text column by its length rule), inside CREATE TABLE "NAME" ( ... ); a
\* second call on the same input gives the same statement.
C18_DdlIsOneMappedDefinitionPerColumn ==
    DdlDone =>
        /\ Len(ddl_out.column_defs) = Len(ddl_in.table.schema)
        /\ \A j \in DOMAIN ddl_in.table.schema :
              ddl_out.column_defs[j] =
                  DefWith(j, IF ddl_in.table.schema[j].type = "string"
                             THEN TextRule(ddl_in.table.columns[j])
                             ELSE MappedType(ddl_in.table.schema[j].type))
        /\ ddl_out.ddl = "CREATE TABLE \"" \o Text(Upper(ddl_in.table_name)) \o "\" (\n"
                            \o Join(",\n", ddl_out.column_defs) \o "\n)"
        /\ ppc = "ddl_twice" => ddl_out.again = ddl_out.ddl

\* a decimal(10,2) column and a 64-bit float column of a table named in
\* lower case, generated twice
C18_Witness ==
    /\ ppc = "ddl_twice"
    /\ ddl_in.table_name = s_dumdum
    /\ Len(ddl_in.table.schema) = 2
    /\ ddl_in.table.schema[1].type = "decimal128(10, 2)"
    /\ ddl_in.table.schema[2].type = "double"
    /\ ddl_out.again =
          "CREATE TABLE \"DUMDUM\" (\n    \"ID\" NUMBER(10,2),\n    \"EVENTS\" BINARY_DOUBLE\n)"

=============================================================================
